---- MODULE Spec2Model ----
(***************************************************************************)
(* A model of vkdgen.py, the D binding generator for the Vulkan registry:  *)
(* the DGenerator callbacks (beginFeature, genType, genStruct, genGroup,   *)
(* genEnum, genCmd, endFeature, endFile), the type translation helpers     *)
(* (getFullType, convertTypeConst) and the loader struct that endFile      *)
(* writes into functions.d.                                                *)
(*                                                                         *)
(* Text is a sequence of tokens.  A token is one character ("*", " ",      *)
(* "r") or a whole word ("const", "struct", "VkDevice").  Every word of    *)
(* the vocabulary other than "struct" starts with a character that the     *)
(* operations applied to it here never remove.                             *)
(***************************************************************************)
EXTENDS Integers, Sequences, FiniteSets, TLC

\* ------------------------------------------------------------------ bounds
MaxBlocks == 2
MaxEntries == 2
MaxMembers == 3
MaxTypeLen == 7
MaxNameLen == 3

\* ----------------------------------------------------------- text helpers
Ws == {" "}

RECURSIVE LStrip(_)
LStrip(s) == IF s # <<>> /\ Head(s) \in Ws THEN LStrip(Tail(s)) ELSE s

RECURSIVE RStrip(_)
RStrip(s) ==
    IF s # <<>> /\ s[Len(s)] \in Ws THEN RStrip(SubSeq(s, 1, Len(s) - 1)) ELSE s

Strip(s) == LStrip(RStrip(s))

\* str.lstrip(chars): drops leading tokens made only of characters of chars
RECURSIVE LStripChars(_, _)
LStripChars(s, chars) ==
    IF s # <<>> /\ Head(s) \in chars THEN LStripChars(Tail(s), chars) ELSE s

\* str.rstrip(chars)
RECURSIVE RStripChars(_, _)
RStripChars(s, chars) ==
    IF s # <<>> /\ s[Len(s)] \in chars
    THEN RStripChars(SubSeq(s, 1, Len(s) - 1), chars)
    ELSE s

StartsWith(s, word) == s # <<>> /\ Head(s) = word

\* the tokens made only of characters of the string 'struct '
StructChars == {"s", "t", "r", "u", "c", " ", "struct"}

RECURSIVE Concat(_)
Concat(ss) == IF ss = <<>> THEN <<>> ELSE Head(ss) \o Concat(Tail(ss))

RECURSIVE Join(_, _)
Join(ss, sep) ==
    IF ss = <<>> THEN <<>>
    ELSE IF Len(ss) = 1 THEN ss[1]
    ELSE ss[1] \o sep \o Join(Tail(ss), sep)

Range(s) == {s[i] : i \in 1..Len(s)}

\* ------------------------------------------------------- type translation
None == <<"None">>

\* getFullType: the string it returns
getFullType(elem) ==
    LET raw    == LStrip(elem.text) \o Strip(elem.type) \o RStrip(elem.tail)
        typstr == IF StartsWith(raw, "struct")
                  THEN LStripChars(raw, StructChars) ELSE raw
    IN  IF elem.enum # None
        THEN typstr \o <<"[">> \o elem.enum \o <<"]">>
        ELSE typstr \o elem.nameTail

\* getFullType: the names it adds to the set passed as opaqueStruct
getFullTypeOpaque(elem) ==
    LET raw == LStrip(elem.text) \o Strip(elem.type) \o RStrip(elem.tail)
    IN  IF StartsWith(raw, "struct")
        THEN {RStripChars(LStripChars(raw, StructChars), {"*"})}
        ELSE {}

\* the group of  ^const\s+(.+)  matched against a whole prefix; <<>> = no match
ConstPrefixGroup(w) ==
    IF Len(w) >= 3 /\ w[1] = "const" /\ w[2] \in Ws
    THEN LET m == SubSeq(w, 3, Len(w))
         IN  IF LStrip(m) # <<>> THEN LStrip(m) ELSE <<m[Len(m)]>>
    ELSE <<>>

\* re_single_const  ^const\s+(.+)\*\s*$  : group 1, <<>> when there is no match
MatchSingleConst(typ) ==
    LET t == RStrip(typ)
    IN  IF t # <<>> /\ t[Len(t)] = "*"
        THEN ConstPrefixGroup(SubSeq(t, 1, Len(t) - 1))
        ELSE <<>>

\* re_double_const  ^const\s+(.+)\*\s+const\*\s*$  : group 1, <<>> = no match
MatchDoubleConst(typ) ==
    LET t == RStrip(typ)
    IN  IF Len(t) >= 3 /\ t[Len(t)] = "*" /\ t[Len(t) - 1] = "const"
           /\ t[Len(t) - 2] \in Ws
        THEN LET v == RStrip(SubSeq(t, 1, Len(t) - 2))
             IN  IF v # <<>> /\ v[Len(v)] = "*"
                 THEN ConstPrefixGroup(SubSeq(v, 1, Len(v) - 1))
                 ELSE <<>>
        ELSE <<>>

DoubleConstRule(g) == <<"const", "(">> \o g \o <<"*", ")", "*">>
SingleConstRule(g) == <<"const", "(">> \o g \o <<")", "*">>

convertTypeConstSingleFirst(typ) ==
    IF MatchSingleConst(typ) # <<>> THEN SingleConstRule(MatchSingleConst(typ))
    ELSE IF MatchDoubleConst(typ) # <<>>
    THEN DoubleConstRule(MatchDoubleConst(typ))
    ELSE typ
convertTypeConst(typ) ==
    IF MatchDoubleConst(typ) # <<>> THEN DoubleConstRule(MatchDoubleConst(typ))
    ELSE IF MatchSingleConst(typ) # <<>>
    THEN SingleConstRule(MatchSingleConst(typ))
    ELSE typ

\* ------------------------------------------------------------ the registry
\* <param>/<member>/<proto> elements: text before <type>, the type, its tail,
\* the name, the text after <name>, and the <enum> child (None when absent)
Elem(text, type, tail, name) ==
    [text |-> text, type |-> type, tail |-> tail, name |-> name,
     nameTail |-> <<>>, enum |-> None]

P_instance == Elem(<<>>, <<"VkInstance">>, <<" ">>, <<"instance">>)
P_device   == Elem(<<>>, <<"VkDevice">>, <<" ">>, <<"device">>)
P_queue    == Elem(<<>>, <<"VkQueue">>, <<" ">>, <<"queue">>)
P_cmdbuf   == Elem(<<>>, <<"VkCommandBuffer">>, <<" ">>, <<"commandBuffer">>)
P_info     == Elem(<<"const", " ">>, <<"VkInstanceCreateInfo">>, <<"*", " ">>,
                   <<"pCreateInfo">>)
P_pdevice  == Elem(<<"const", " ">>, <<"VkDevice">>, <<"*", " ">>, <<"pDevices">>)
P_opaque   == Elem(<<"struct", " ">>, <<"wl_display">>, <<"*", " ">>, <<"display">>)
ProtoResult == Elem(<<>>, <<"VkResult">>, <<" ">>, <<>>)

gloablLevelFuncNames ==
    {"vkGetInstanceProcAddr", "vkEnumerateInstanceExtensionProperties",
     "vkEnumerateInstanceLayerProperties", "vkCreateInstance"}

DeviceTypes == {<<"VkDevice">>, <<"VkQueue">>, <<"VkCommandBuffer">>}

\* the commands of the registry: the commands the generator names in its own
\* text have the parameters the loader calls them with, the others take any
\* of the parameter lists
OrdinaryNames == {"vkFoo"}
ParamLists ==
    {<<>>, <<P_instance>>, <<P_queue>>, <<P_cmdbuf, P_opaque>>, <<P_pdevice>>}
Commands ==
    {[name |-> "vkGetInstanceProcAddr", proto |-> ProtoResult,
      params |-> <<P_instance>>],
     [name |-> "vkCreateInstance", proto |-> ProtoResult,
      params |-> <<P_info>>],
     [name |-> "vkGetDeviceProcAddr", proto |-> ProtoResult,
      params |-> <<P_device>>]}
    \cup {[name |-> n, proto |-> ProtoResult, params |-> ps] :
            n \in OrdinaryNames, ps \in ParamLists}

\* the features and extensions of the registry, in the order the registry
\* lists them: the core version first, then the extensions
RegistryOrder == <<"VK_VERSION_1_0", "VK_KHR_xcb_surface", "VK_KHR_surface">>
FeatureNames == Range(RegistryOrder)
RegistryIdx(name) == CHOOSE i \in 1..Len(RegistryOrder) : RegistryOrder[i] = name

surfaceExtensions ==
    {"VK_KHR_android_surface", "VK_KHR_mir_surface", "VK_KHR_wayland_surface",
     "VK_KHR_win32_surface", "VK_KHR_xlib_surface", "VK_KHR_xcb_surface"}

TYPE_SECTIONS_Swapped ==
    <<"include", "define", "basetype", "handle", "enum", "group", "bitmask",
      "struct", "funcpointer">>
TYPE_SECTIONS ==
    <<"include", "define", "basetype", "handle", "enum", "group", "bitmask",
      "funcpointer", "struct">>
ALL_SECTIONS == TYPE_SECTIONS \o <<"commandPointer", "command">>


\* --------------------------------------------------------------- the state
VARIABLES
    pc,                          \* new, start, open, closed, done, running, crashed
    emit,                        \* OutputGenerator.emit of the current block
    currentFeature,              \* "// name", with a leading tab after the types are written
    isSurfaceExtension,
    surfaceExtensionVersionIndent,
    sections,                    \* section name -> list of declarations
    opaqueStruct,
    functionTypeName,            \* declaration of a command -> its name
    functionVars,
    instanceLevelFuncNames,
    instanceLevelFunctions,
    deviceLevelFuncNames,
    deviceLevelFunctions,
    typesFile,                   \* the lines written to types.d
    funcsFile,                   \* the lines written to functions.d
    visited,                     \* the entries the registry has passed, in order
    begun                        \* the blocks the registry has opened, in order

genVars ==
    <<pc, emit, currentFeature, isSurfaceExtension,
      surfaceExtensionVersionIndent, sections, opaqueStruct, functionTypeName,
      functionVars, instanceLevelFuncNames, instanceLevelFunctions,
      deviceLevelFuncNames, deviceLevelFunctions, typesFile, funcsFile,
      visited, begun>>

\* the loader of functions.d at run time
VARIABLES
    versions,     \* the version identifiers the D program is compiled with
    ptr,          \* the __gshared table: command -> what resolved its pointer
    ran,          \* the entry points that have returned
    failed,       \* an assert of the loader has failed
    lastCall      \* the entry point called last

loaderVars == <<versions, ptr, ran, failed, lastCall>>

\* the inputs of the operations checked on their own, and their results
VARIABLES arg, res

vars == <<genVars, loaderVars, arg, res>>

\* a declaration appended to a section
Text(cat, name, toks) == [cat |-> cat, name |-> name, toks |-> toks]
NoText == Text("", "", <<>>)

\* a line of an output file
Line(k, f, sec, text) == [k |-> k, f |-> f, sec |-> sec, text |-> text]
\* an element of one of the three loader streams
Item(k, f, name) == [k |-> k, f |-> f, name |-> name]

EmptySections == [s \in Range(ALL_SECTIONS) |-> <<>>]

GenInit ==
    /\ pc = "new"
    /\ emit = FALSE
    /\ currentFeature = <<>>
    /\ isSurfaceExtension = FALSE
    /\ surfaceExtensionVersionIndent = <<>>
    /\ sections = EmptySections
    /\ opaqueStruct = {}
    /\ functionTypeName = <<>>
    /\ functionVars = <<>>
    /\ instanceLevelFuncNames = {}
    /\ instanceLevelFunctions = <<>>
    /\ deviceLevelFuncNames = {}
    /\ deviceLevelFunctions = <<>>
    /\ typesFile = <<>>
    /\ funcsFile = <<>>
    /\ visited = <<>>
    /\ begun = <<>>

\* ----------------------------------------------------------- the callbacks
beginFile ==
    /\ pc = "new"
    /\ pc' = "start"
    /\ typesFile' = <<Line("header", <<>>, "", NoText)>>
    /\ funcsFile' = <<Line("header", <<>>, "", NoText)>>
    /\ UNCHANGED <<emit, currentFeature, isSurfaceExtension,
                   surfaceExtensionVersionIndent, sections, opaqueStruct,
                   functionTypeName, functionVars, instanceLevelFuncNames,
                   instanceLevelFunctions, deviceLevelFuncNames,
                   deviceLevelFunctions, visited, begun>>
    /\ UNCHANGED <<loaderVars, arg, res>>

beginFeatureKeepSections(name, emitFlag) ==
    /\ pc \in {"start", "closed"}
    /\ Len(begun) < MaxBlocks
    /\ \A i \in 1..Len(begun) : RegistryIdx(begun[i].name) < RegistryIdx(name)
    /\ pc' = "open"
    /\ emit' = emitFlag
    /\ currentFeature' = <<"// ", name>>
    /\ isSurfaceExtension' = (name \in surfaceExtensions)
    /\ surfaceExtensionVersionIndent' =
           IF name \in surfaceExtensions THEN <<"\t">> ELSE <<>>
    /\ begun' = Append(begun, [name |-> name, emit |-> emitFlag])
    /\ UNCHANGED <<sections, opaqueStruct>>
    /\ UNCHANGED <<functionTypeName, functionVars, instanceLevelFuncNames,
                   instanceLevelFunctions, deviceLevelFuncNames,
                   deviceLevelFunctions, typesFile, funcsFile, visited>>
    /\ UNCHANGED <<loaderVars, arg, res>>

beginFeature(name, emitFlag) ==
    /\ pc \in {"start", "closed"}
    /\ Len(begun) < MaxBlocks
    /\ \A i \in 1..Len(begun) : RegistryIdx(begun[i].name) < RegistryIdx(name)
    /\ pc' = "open"
    /\ emit' = emitFlag
    /\ currentFeature' = <<"// ", name>>
    /\ sections' = EmptySections
    /\ opaqueStruct' = {}
    /\ isSurfaceExtension' = (name \in surfaceExtensions)
    /\ surfaceExtensionVersionIndent' =
           IF name \in surfaceExtensions THEN <<"\t">> ELSE <<>>
    /\ begun' = Append(begun, [name |-> name, emit |-> emitFlag])
    /\ UNCHANGED <<functionTypeName, functionVars, instanceLevelFuncNames,
                   instanceLevelFunctions, deviceLevelFuncNames,
                   deviceLevelFunctions, typesFile, funcsFile, visited>>
    /\ UNCHANGED <<loaderVars, arg, res>>

appendSection(secs, section, text) ==
    [secs EXCEPT ![section] = Append(@, text)]

CanVisit(name) ==
    /\ pc = "open"
    /\ Len(visited) < MaxEntries
    /\ \A i \in 1..Len(visited) : visited[i].name # name

\* the record of one callback: the entry, its kind, the <param> elements of a
\* command and the block it was passed in
Visit(name, kind, params) ==
    [name |-> name, kind |-> kind, params |-> params, block |-> Len(begun)]

\* the alias that genCmd builds for a command
ParamText(param) ==
    convertTypeConst(Strip(getFullType(param))) \o <<" ">> \o param.name
funTypeName(cmd) ==
    Text("command", cmd.name,
         <<"\talias PFN_", cmd.name, " = ">>
         \o convertTypeConst(Strip(getFullType(cmd.proto)))
         \o <<" function(">>
         \o Join([i \in 1..Len(cmd.params) |-> ParamText(cmd.params[i])],
                 <<", ">>)
         \o <<");">>)

CmdOpaque(cmd) ==
    UNION {getFullTypeOpaque(cmd.params[i]) : i \in 1..Len(cmd.params)}

\* params[0] of an empty list raises IndexError
RaisesIndexError(cmd) ==
    cmd.name # "vkGetDeviceProcAddr" /\ cmd.params = <<>>

IsDeviceLevel(cmd) ==
    /\ cmd.name # "vkGetDeviceProcAddr"
    /\ getFullType(cmd.params[1]) \in DeviceTypes

genCmd(cmd) ==
    /\ CanVisit(cmd.name)
    /\ visited' = Append(visited, Visit(cmd.name, "command", cmd.params))
    /\ opaqueStruct' = opaqueStruct \cup CmdOpaque(cmd)
    /\ sections' = appendSection(sections, "command", funTypeName(cmd))
    /\ functionTypeName' =
           [t \in DOMAIN functionTypeName \cup {funTypeName(cmd)} |->
              IF t = funTypeName(cmd) THEN cmd.name ELSE functionTypeName[t]]
    /\ IF RaisesIndexError(cmd)
       THEN /\ pc' = "crashed"
            /\ UNCHANGED <<deviceLevelFuncNames, instanceLevelFuncNames>>
       ELSE /\ pc' = pc
            /\ IF IsDeviceLevel(cmd)
               THEN /\ deviceLevelFuncNames' = deviceLevelFuncNames \cup {cmd.name}
                    /\ UNCHANGED instanceLevelFuncNames
               ELSE /\ instanceLevelFuncNames' =
                           instanceLevelFuncNames \cup {cmd.name}
                    /\ UNCHANGED deviceLevelFuncNames
    /\ UNCHANGED <<emit, currentFeature, isSurfaceExtension,
                   surfaceExtensionVersionIndent, functionVars,
                   instanceLevelFunctions, deviceLevelFunctions, typesFile,
                   funcsFile, begun>>
    /\ UNCHANGED <<loaderVars, arg, res>>


\* --------------------------------------------------- genType and genStruct
\* the character length of a text
RECURSIVE CharLen(_)
CharLen(s) == IF s = <<>> THEN 0 ELSE Len(Head(s)) + CharLen(Tail(s))

RECURSIVE Pad(_)
Pad(n) == IF n <= 0 THEN <<>> ELSE <<" ">> \o Pad(n - 1)

ljust(s, width) == s \o Pad(width - CharLen(s))

\* the words of the names of the registry, and str.upper() of each
Upper ==
    [w \in {"Vk", "Wayland", "Surface", "Create", "Info", "KHR", "Offset",
            "Result", "Cull", "Mode", "Flag", "Bits", "Present"} |->
        CASE w = "Vk" -> "VK"
          [] w = "Wayland" -> "WAYLAND"
          [] w = "Surface" -> "SURFACE"
          [] w = "Create" -> "CREATE"
          [] w = "Info" -> "INFO"
          [] w = "KHR" -> "KHR"
          [] w = "Offset" -> "OFFSET"
          [] w = "Result" -> "RESULT"
          [] w = "Cull" -> "CULL"
          [] w = "Mode" -> "MODE"
          [] w = "Flag" -> "FLAG"
          [] w = "Bits" -> "BITS"
          [] w = "Present" -> "PRESENT"]
\* the words written in capitals only
AllCaps == {"KHR"}

\* re_camel_case  ([a-z])([A-Z]) -> \1_\2 , then upper(), on a name given by
\* its words: an underscore goes between a word that ends in a small letter
\* and the word after it
RECURSIVE CamelUpper(_)
CamelUpper(words) ==
    IF words = <<>> THEN <<>>
    ELSE IF Len(words) = 1 THEN <<Upper[words[1]]>>
    ELSE IF words[1] \in AllCaps
    THEN <<Upper[words[1]]>> \o CamelUpper(Tail(words))
    ELSE <<Upper[words[1]], "_">> \o CamelUpper(Tail(words))

\* re_array  ^([^\[]+)\[(\d+)\]$  against a name
convertTypeArray(typ, name) ==
    IF Len(name) = 4 /\ name[2] = "[" /\ name[4] = "]"
    THEN <<typ \o <<"[", name[3], "]">>, <<name[1]>>>>
    ELSE <<typ, name>>

\* re_funcptr  ^typedef (.+) \(VKAPI_PTR \*$ : group 1
MatchFuncptr(text) ==
    IF Len(text) >= 4 /\ text[1] = "typedef" /\ text[2] = " "
       /\ text[Len(text)] = "(VKAPI_PTR *" /\ text[Len(text) - 1] = " "
    THEN SubSeq(text, 3, Len(text) - 2)
    ELSE <<>>

M_sType   == Elem(<<>>, <<"VkStructureType">>, <<" ">>, <<"sType">>)
M_display == Elem(<<"struct", " ">>, <<"wl_display">>, <<"*", " ">>,
                  <<"display">>)
M_x       == Elem(<<>>, <<"int32_t">>, <<" ">>, <<"x">>)
M_pNext   == Elem(<<"const", " ">>, <<"void">>, <<"*", " ">>, <<"pNext">>)

TypeInfo(name, words, category, requires, type, text, itertext, members) ==
    [name |-> name, words |-> words, category |-> category,
     requires |-> requires, type |-> type, text |-> text,
     itertext |-> itertext, members |-> members]

Types ==
    {TypeInfo("VkInstance", <<>>, "handle", None, <<"VK_DEFINE_HANDLE">>,
              <<>>, <<>>, <<>>),
     TypeInfo("VkFlags", <<>>, "basetype", None, <<"uint32_t">>,
              <<>>, <<>>, <<>>),
     TypeInfo("PFN_vkVoidFunction", <<>>, "funcpointer", None, <<>>,
              <<"typedef", " ", "void", " ", "(VKAPI_PTR *">>,
              <<<<"typedef", " ", "void", " ", "(VKAPI_PTR *">>,
                <<"PFN_vkVoidFunction">>, <<")", "(", "void", ");">>>>, <<>>),
     TypeInfo("Display", <<>>, "", <<"X11/Xlib", ".h">>, <<>>, <<>>, <<>>, <<>>),
     TypeInfo("VkWaylandSurfaceCreateInfoKHR",
              <<"Vk", "Wayland", "Surface", "Create", "Info", "KHR">>,
              "struct", None, <<>>, <<>>, <<>>,
              <<M_sType, M_pNext, M_display>>),
     TypeInfo("VkOffset", <<"Vk", "Offset">>, "struct", None, <<>>, <<>>, <<>>,
              <<M_x>>)}

\* the (type, name) pairs of the members, after translation
MemberTypeName(typeinfo) ==
    [i \in 1..Len(typeinfo.members) |->
        LET member == typeinfo.members[i]
            memberType == convertTypeConst(Strip(getFullType(member)))
            memberName == IF member.name = <<"module">> THEN <<"_module">>
                          ELSE member.name
        IN  convertTypeArray(memberType, memberName)]

RECURSIVE MaxLen(_)
MaxLen(pairs) ==
    IF pairs = <<>> THEN 0
    ELSE LET rest == MaxLen(Tail(pairs))
             here == CharLen(Head(pairs)[1])
         IN  IF here > rest THEN here ELSE rest

StructOpaque(typeinfo) ==
    UNION {getFullTypeOpaque(typeinfo.members[i]) :
             i \in 1..Len(typeinfo.members)}

\* the lines genStruct appends to the struct section
genStructLines(typeinfo, indent) ==
    LET pairs == MemberTypeName(typeinfo)
        targetLen == MaxLen(pairs)
        memberLine(pair) ==
            IF pair[2] = <<"sType">> /\ pair[1] = <<"VkStructureType">>
            THEN IF typeinfo.name = "VkWin32SurfaceCreateInfoKHR"
                 THEN <<"\t">> \o ljust(<<"VkStructureType">>, targetLen + 1)
                      \o <<" sType = VkStructureType.VK_STRUCTURE_TYPE_",
                           "WIN32_SURFACE_CREATE_INFO_KHR", ";">>
                 ELSE <<"\t">> \o ljust(<<"VkStructureType">>, targetLen)
                      \o <<"  sType = VkStructureType.VK_STRUCTURE_TYPE_">>
                      \o CamelUpper(Tail(typeinfo.words)) \o <<";">>
            ELSE <<"\t">> \o ljust(pair[1], targetLen) \o <<"  ">> \o pair[2]
                 \o <<";">>
    IN  <<Text("struct", typeinfo.name,
               <<"\n">> \o indent \o <<typeinfo.category, " ", typeinfo.name,
                                        " {">>)>>
        \o [i \in 1..Len(pairs) |->
              Text("struct", typeinfo.name, memberLine(pairs[i]))]
        \o <<Text("struct", typeinfo.name, <<"}">>)>>

EndsWith(s, word) == s # <<>> /\ s[Len(s)] = word

IsSkipped(typeinfo) ==
    typeinfo.requires # None
    /\ (EndsWith(typeinfo.requires, ".h")
        \/ typeinfo.requires = <<"vk_platform">>)

genTypeSections(typeinfo, indent) ==
    IF IsSkipped(typeinfo)
    THEN sections
    ELSE CASE typeinfo.category = "handle" ->
                appendSection(sections, "handle",
                    Text("handle", typeinfo.name,
                         <<"mixin(">> \o typeinfo.type
                         \o <<"!q{", typeinfo.name, "});">>))
           [] typeinfo.category = "basetype" ->
                appendSection(sections, "basetype",
                    Text("basetype", typeinfo.name,
                         <<"alias ", typeinfo.name, " = ">> \o typeinfo.type
                         \o <<";">>))
           [] typeinfo.category = "bitmask" ->
                appendSection(sections, "bitmask",
                    Text("bitmask", typeinfo.name,
                         <<"alias ", typeinfo.name, " = VkFlags;">>))
           [] typeinfo.category = "funcpointer" ->
                LET returnType == MatchFuncptr(typeinfo.text)
                    joined == Concat(SubSeq(typeinfo.itertext, 3,
                                            Len(typeinfo.itertext)))
                    cut == SubSeq(joined, 3, Len(joined))
                    params == IF cut = <<"void", ");">> THEN <<");">> ELSE cut
                IN  appendSection(sections, "funcpointer",
                        Text("funcpointer", typeinfo.name,
                             <<"alias ", typeinfo.name, " = ">> \o returnType
                             \o <<" function(">> \o params))
           [] typeinfo.category \in {"struct", "union"} ->
                [sections EXCEPT !["struct"] =
                    @ \o genStructLines(typeinfo, indent)]
           [] OTHER -> sections

genType(typeinfo) ==
    /\ CanVisit(typeinfo.name)
    /\ visited' = Append(visited, Visit(typeinfo.name, "type", <<>>))
    /\ sections' = genTypeSections(typeinfo, surfaceExtensionVersionIndent)
    /\ opaqueStruct' =
           IF ~IsSkipped(typeinfo) /\ typeinfo.category \in {"struct", "union"}
           THEN opaqueStruct \cup StructOpaque(typeinfo)
           ELSE opaqueStruct
    /\ UNCHANGED <<pc, emit, currentFeature, isSurfaceExtension,
                   surfaceExtensionVersionIndent, functionTypeName,
                   functionVars, instanceLevelFuncNames,
                   instanceLevelFunctions, deviceLevelFuncNames,
                   deviceLevelFunctions, typesFile, funcsFile, begun>>
    /\ UNCHANGED <<loaderVars, arg, res>>


\* ----------------------------------------------------- genGroup and genEnum
NoName == "None"

\* the options __main__ passes: addExtensions = ".*" matches every extension
\* name, defaultExtensions is left at None
ExtensionNames == {"VK_EXT_a"}
MainOptions ==
    [addExtensions |-> ExtensionNames, defaultExtensions |-> NoName,
     namePrefix |-> "DVulkan", genFuncPointers |-> TRUE]

\* re.sub(r'([0-9a-z_])([A-Z0-9][^A-Z0-9]?)', r'\1_\2', groupName).upper() on
\* a name given by its words: an underscore goes before a word when the word
\* before it ends in a small letter that the previous match has not consumed
RECURSIVE ExpandFrom(_, _, _)
ExpandFrom(words, i, prevSplit) ==
    IF i > Len(words) THEN <<>>
    ELSE LET split == /\ i > 1
                      /\ words[i - 1] \notin AllCaps
                      /\ ~(prevSplit /\ Len(words[i - 1]) = 2)
         IN  (IF split THEN <<"_">> ELSE <<>>) \o <<Upper[words[i]]>>
             \o ExpandFrom(words, i + 1, split)
expandNameOf(words) == ExpandFrom(words, 1, FALSE)

\* re.search(r'[A-Z][A-Z]+$', groupName): "_" + the match, <<>> without one
expandSuffixOf(words) ==
    IF words # <<>> /\ words[Len(words)] \in AllCaps
    THEN <<"_", words[Len(words)]>> ELSE <<>>

\* expandName.rsplit(expandSuffix, 1)[0]
expandPrefixOf(words) ==
    LET name == expandNameOf(words)
        suffix == expandSuffixOf(words)
    IN  IF suffix # <<>> /\ Len(name) >= 2
           /\ SubSeq(name, Len(name) - 1, Len(name)) = suffix
        THEN SubSeq(name, 1, Len(name) - 2)
        ELSE name

\* 'FLAG_BITS' not in expandPrefix
isEnumOf(words) ==
    LET prefix == expandPrefixOf(words)
    IN  ~\E i \in 1..(Len(prefix) - 2) :
            SubSeq(prefix, i, i + 2) = <<"FLAG", "_", "BITS">>

\* the test that decides whether a member is written into the body
PassesFilter(elem, opts) ==
    \/ elem.extname = NoName
    \/ elem.extname \in opts.addExtensions
    \/ opts.defaultExtensions = elem.supported

NoScan == [minName |-> NoName, maxName |-> NoName, minValue |-> 0, maxValue |-> 0]

\* one turn of the loop's min/max tracking
ScanStepMaxFirst(st, elem) ==
    IF st.minName = NoName
    THEN [minName |-> elem.name, maxName |-> elem.name,
          minValue |-> elem.value, maxValue |-> elem.value]
    ELSE IF elem.value > st.minValue
    THEN [st EXCEPT !.maxName = elem.name, !.maxValue = elem.value]
    ELSE IF elem.value < st.minValue
    THEN [st EXCEPT !.minName = elem.name, !.minValue = elem.value]
    ELSE st
ScanStep(st, elem) ==
    IF st.minName = NoName
    THEN [minName |-> elem.name, maxName |-> elem.name,
          minValue |-> elem.value, maxValue |-> elem.value]
    ELSE IF elem.value < st.minValue
    THEN [st EXCEPT !.minName = elem.name, !.minValue = elem.value]
    ELSE IF elem.value > st.maxValue
    THEN [st EXCEPT !.maxName = elem.name, !.maxValue = elem.value]
    ELSE st

RECURSIVE Scan(_, _, _)
Scan(enums, isEnum, st) ==
    IF enums = <<>> THEN st
    ELSE Scan(Tail(enums), isEnum,
              IF isEnum /\ ~Head(enums).extends
              THEN ScanStep(st, Head(enums)) ELSE st)

\* the members written into the body, in order
Written(enums, opts) == SelectSeq(enums, LAMBDA e : PassesFilter(e, opts))

\* genGroup: whether it raises, the section it appends to, the text it
\* appends and the names it gives the two range sentinels
genGroupResult(groupinfo, opts) ==
    LET words  == groupinfo.words
        prefix == expandPrefixOf(words)
        suffix == expandSuffixOf(words)
        isEnum == isEnumOf(words)
        st     == Scan(groupinfo.enums, isEnum, NoScan)
        kept   == Written(groupinfo.enums, opts)
        sentinel(tag) == prefix \o <<tag>> \o suffix
        body ==
            <<"\nenum ", groupinfo.name, " {\n">>
            \o Concat([i \in 1..Len(kept) |->
                  <<"\t", kept[i].name, " = ", ToString(kept[i].value), ",\n">>])
            \o (IF isEnum
                THEN <<"\t">> \o sentinel("_BEGIN_RANGE")
                       \o <<" = ", st.minName, ",\n">>
                     \o <<"\t">> \o sentinel("_END_RANGE")
                       \o <<" = ", st.maxName, ",\n">>
                     \o <<"\t">> \o sentinel("_RANGE_SIZE")
                       \o <<" = (", st.maxName, " - ", st.minName, " + 1),\n">>
                ELSE <<>>)
            \o <<"\t">> \o sentinel("_MAX_ENUM") \o <<" = 0x7FFFFFFF\n}">>
        alias(tag) ==
            <<"\tenum ">> \o sentinel(tag) \o <<" = ", groupinfo.name, ".">>
            \o sentinel(tag) \o <<";\n">>
        globalEnums ==
            <<"\n\nversion( ", opts.namePrefix, "GlobalEnums ) {\n">>
            \o Concat([i \in 1..Len(kept) |->
                  <<"\tenum ", kept[i].name, " = ", groupinfo.name, ".",
                    kept[i].name, ";\n">>])
            \o (IF isEnum
                THEN alias("_BEGIN_RANGE") \o alias("_END_RANGE")
                     \o alias("_RANGE_SIZE")
                ELSE <<>>)
            \o alias("_MAX_ENUM") \o <<"}">>
    IN  [raised  |-> isEnum /\ st.minName = NoName,
         section |-> IF groupinfo.type = "bitmask" THEN "bitmask" ELSE "group",
         isEnum  |-> isEnum,
         minName |-> st.minName,
         maxName |-> st.maxName,
         written |-> [i \in 1..Len(kept) |-> kept[i].name],
         text    |-> Text(IF groupinfo.type = "bitmask" THEN "bitmask" ELSE "group",
                          groupinfo.name, body \o globalEnums)]

EnumElem(name, value, extends, extname, supported) ==
    [name |-> name, value |-> value, extends |-> extends, extname |-> extname,
     supported |-> supported]

GroupInfo(name, words, type, enums) ==
    [name |-> name, words |-> words, type |-> type, enums |-> enums]

Groups ==
    {GroupInfo("VkResult", <<"Vk", "Result">>, "enum",
               <<EnumElem("VK_SUCCESS", 0, FALSE, NoName, NoName),
                 EnumElem("VK_NOT_READY", 1, FALSE, NoName, NoName),
                 EnumElem("VK_ERROR_A", -1, FALSE, NoName, NoName),
                 EnumElem("VK_ERROR_EXT", -1000, TRUE, "VK_EXT_a", "vulkan")>>),
     GroupInfo("VkCullModeFlagBits", <<"Vk", "Cull", "Mode", "Flag", "Bits">>,
               "bitmask",
               <<EnumElem("VK_CULL_MODE_NONE", 0, FALSE, NoName, NoName),
                 EnumElem("VK_CULL_MODE_FRONT_BIT", 1, FALSE, NoName, NoName)>>)}

genGroup(groupinfo) ==
    LET r == genGroupResult(groupinfo, MainOptions)
    IN  /\ CanVisit(groupinfo.name)
        /\ visited' = Append(visited, Visit(groupinfo.name, "group", <<>>))
        /\ IF r.raised
           THEN pc' = "crashed" /\ UNCHANGED sections
           ELSE pc' = pc /\ sections' = appendSection(sections, r.section, r.text)
        /\ UNCHANGED <<emit, currentFeature, isSurfaceExtension,
                       surfaceExtensionVersionIndent, opaqueStruct,
                       functionTypeName, functionVars, instanceLevelFuncNames,
                       instanceLevelFunctions, deviceLevelFuncNames,
                       deviceLevelFunctions, typesFile, funcsFile, begun>>
        /\ UNCHANGED <<loaderVars, arg, res>>

\* re_long_int  ([0-9]+)ULL -> \1UL : digits are one token, the suffix another
Digits == {"0", "1", "256"}
ReLongInt(strVal) ==
    [i \in 1..Len(strVal) |->
        IF i > 1 /\ strVal[i] = "ULL" /\ strVal[i - 1] \in Digits
        THEN "UL" ELSE strVal[i]]

Enums ==
    {[name |-> "VK_WHOLE_SIZE", strVal |-> <<"(~", "0", "ULL", ")">>]}

genEnum(enuminfo) ==
    LET strVal ==
            ReLongInt(
                IF enuminfo.strVal
                     = <<"VK_STRUCTURE_TYPE_DEBUG_REPORT_CALLBACK_CREATE_INFO_EXT">>
                THEN <<"VkStructureType.">> \o enuminfo.strVal
                ELSE enuminfo.strVal)
    IN  /\ CanVisit(enuminfo.name)
        /\ visited' = Append(visited, Visit(enuminfo.name, "enum", <<>>))
        /\ sections' = appendSection(sections, "enum",
               Text("enum", enuminfo.name,
                    <<"enum ", enuminfo.name, " = ">> \o strVal \o <<";">>))
        /\ UNCHANGED <<pc, emit, currentFeature, isSurfaceExtension,
                       surfaceExtensionVersionIndent, opaqueStruct,
                       functionTypeName, functionVars, instanceLevelFuncNames,
                       instanceLevelFunctions, deviceLevelFuncNames,
                       deviceLevelFunctions, typesFile, funcsFile, begun>>
        /\ UNCHANGED <<loaderVars, arg, res>>


\* ------------------------------------------------------------- endFeature
\* surfaceExtensions[currentFeature][0]
SurfaceMacro(feature) ==
    CASE feature = <<"// ", "VK_KHR_android_surface">> -> "VK_USE_PLATFORM_ANDROID_KHR"
      [] feature = <<"// ", "VK_KHR_mir_surface">> -> "VK_USE_PLATFORM_MIR_KHR"
      [] feature = <<"// ", "VK_KHR_wayland_surface">> -> "VK_USE_PLATFORM_WAYLAND_KHR"
      [] feature = <<"// ", "VK_KHR_win32_surface">> -> "VK_USE_PLATFORM_WIN32_KHR"
      [] feature = <<"// ", "VK_KHR_xlib_surface">> -> "VK_USE_PLATFORM_XLIB_KHR"
      [] feature = <<"// ", "VK_KHR_xcb_surface">> -> "VK_USE_PLATFORM_XCB_KHR"

\* the orders in which a loop over a set may visit its elements
Orders(S) == {o \in [1..Cardinality(S) -> S] : Range(o) = S}

ContentLines(f, section) ==
    [i \in 1..Len(sections[section]) |->
        Line("content", f, section, sections[section][i])]

\* the loop over TYPE_SECTIONS, from position i on
RECURSIVE TypeSectionLines(_, _, _, _)
TypeSectionLines(order, f, opaqueOrder, i) ==
    IF i > Len(order) THEN <<>>
    ELSE LET section == order[i]
             here ==
                 IF sections[section] = <<>> THEN <<>>
                 ELSE (IF section = "struct" /\ opaqueStruct # {}
                       THEN [j \in 1..Len(opaqueOrder) |->
                               Line("opaque", f, "",
                                    Text("opaque", "", opaqueOrder[j]))]
                            \o <<Line("blank", f, "", NoText)>>
                       ELSE <<>>)
                      \o ContentLines(f, section)
         IN  here \o TypeSectionLines(order, f, opaqueOrder, i + 1)

\* the lines endFeature writes to types.d
TypesOutput(f, opaqueOrder) ==
    <<Line("feature", f, "", NoText)>>
    \o (IF isSurfaceExtension
        THEN <<Line("versionOpen", f, "", Text("version", SurfaceMacro(f), <<>>))>>
        ELSE <<>>)
    \o TypeSectionLines(TYPE_SECTIONS, f, opaqueOrder, 1)
    \o (IF isSurfaceExtension
        THEN <<Line("versionClose", f, "", NoText)>> ELSE <<>>)

VersionOpenLine(f) ==
    IF isSurfaceExtension
    THEN <<Line("versionOpen", f, "",
                Text("version", SurfaceMacro(currentFeature), <<>>))>>
    ELSE <<>>
VersionCloseLine(f) ==
    IF isSurfaceExtension THEN <<Line("versionClose", f, "", NoText)>> ELSE <<>>

\* the lines endFeature writes to functions.d; f is the indented feature
FuncsOutput(f) ==
    (IF MainOptions.genFuncPointers /\ sections["commandPointer"] # <<>>
     THEN VersionOpenLine(currentFeature)
          \o ContentLines(currentFeature, "commandPointer")
          \o VersionCloseLine(currentFeature)
          \o <<Line("blank", currentFeature, "", NoText)>>
     ELSE <<>>)
    \o (IF sections["command"] # <<>>
        THEN <<Line("feature", f, "", NoText)>> \o VersionOpenLine(f)
             \o ContentLines(f, "command") \o VersionCloseLine(f)
        ELSE <<>>)

\* the names of the commands of the block, in the order of the section
CommandNames ==
    [i \in 1..Len(sections["command"]) |->
        functionTypeName[sections["command"][i]]]

VersionOpenItem(f) ==
    IF isSurfaceExtension
    THEN <<Item("versionOpen", f, SurfaceMacro(currentFeature))>> ELSE <<>>
VersionCloseItem(f) ==
    IF isSurfaceExtension THEN <<Item("versionClose", f, "")>> ELSE <<>>

\* what endFeature appends to a stream: the feature comment, the version
\* block and one item per name of the block that passes the test
StreamItems(f, kind, kept) ==
    <<Item("feature", f, "")>> \o VersionOpenItem(f)
    \o [i \in 1..Len(kept) |-> Item(kind, f, kept[i])]
    \o VersionCloseItem(f)

InstanceKeepAll(name) == name \in instanceLevelFuncNames
InstanceKeepBoth(name) == name \notin gloablLevelFuncNames
InstanceKeep(name) ==
    name \in instanceLevelFuncNames /\ name \notin gloablLevelFuncNames
DeviceKeepAll(name) == TRUE
DeviceKeep(name) == name \in deviceLevelFuncNames
VarKeep(name) == TRUE

endFeature ==
    /\ pc = "open"
    /\ pc' = "closed"
    /\ IF emit
       THEN LET f == <<"\t">> \o currentFeature
                names == CommandNames
                hasCommands == sections["command"] # <<>>
                inInstanceLevelFuncNames ==
                    \E i \in 1..Len(names) : names[i] \in instanceLevelFuncNames
                inDeviceLevelFuncNames ==
                    \E i \in 1..Len(names) : names[i] \in deviceLevelFuncNames
            IN  /\ \E opaqueOrder \in Orders(opaqueStruct) :
                      typesFile' = typesFile \o TypesOutput(currentFeature, opaqueOrder)
                /\ funcsFile' = funcsFile \o FuncsOutput(f)
                /\ currentFeature' = f
                /\ functionVars' =
                       IF hasCommands
                       THEN functionVars \o StreamItems(f, "var", SelectSeq(CommandNames, VarKeep))
                       ELSE functionVars
                /\ instanceLevelFunctions' =
                       IF hasCommands /\ inInstanceLevelFuncNames
                       THEN instanceLevelFunctions
                            \o StreamItems(f, "stmt", SelectSeq(CommandNames, InstanceKeep))
                       ELSE instanceLevelFunctions
                /\ deviceLevelFunctions' =
                       IF hasCommands /\ inDeviceLevelFuncNames
                       THEN deviceLevelFunctions
                            \o StreamItems(f, "stmt", SelectSeq(CommandNames, DeviceKeep))
                       ELSE deviceLevelFunctions
       ELSE UNCHANGED <<typesFile, funcsFile, currentFeature, functionVars,
                        instanceLevelFunctions, deviceLevelFunctions>>
    /\ UNCHANGED <<emit, isSurfaceExtension, surfaceExtensionVersionIndent,
                   sections, opaqueStruct, functionTypeName,
                   instanceLevelFuncNames, deviceLevelFuncNames, visited, begun>>
    /\ UNCHANGED <<loaderVars, arg, res>>

\* endFile: the table, then the loader struct built from the two streams
endFile ==
    /\ pc \in {"start", "closed"}
    /\ pc' = "done"
    /\ funcsFile' = funcsFile
           \o <<Line("gshared", <<>>, "", NoText), Line("loader", <<>>, "", NoText)>>
    /\ UNCHANGED <<emit, currentFeature, isSurfaceExtension,
                   surfaceExtensionVersionIndent, sections, opaqueStruct,
                   functionTypeName, functionVars, instanceLevelFuncNames,
                   instanceLevelFunctions, deviceLevelFuncNames,
                   deviceLevelFunctions, typesFile, visited, begun>>
    /\ UNCHANGED <<loaderVars, arg, res>>


\* ------------------------------------------------- the loader of functions.d

AllNames == {c.name : c \in Commands} \cup gloablLevelFuncNames

LoaderInit ==
    /\ versions = {}
    /\ ptr = [n \in AllNames |-> "null"]
    /\ ran = {}
    /\ failed = FALSE
    /\ lastCall = ""

\* the names of the items of a stream that the compiler keeps: an item
\* inside version( M ) { ... } is kept when M is one of the versions
RECURSIVE ActiveNames(_, _, _, _)
ActiveNames(stream, kind, vs, on) ==
    IF stream = <<>> THEN {}
    ELSE LET it == Head(stream)
         IN  CASE it.k = "versionOpen" ->
                    ActiveNames(Tail(stream), kind, vs, it.name \in vs)
               [] it.k = "versionClose" ->
                    ActiveNames(Tail(stream), kind, vs, TRUE)
               [] it.k = kind ->
                    (IF on THEN {it.name} ELSE {})
                    \cup ActiveNames(Tail(stream), kind, vs, on)
               [] OTHER -> ActiveNames(Tail(stream), kind, vs, on)

ModelMacros ==
    {SurfaceMacro(<<"// ", f>>) : f \in FeatureNames \cap surfaceExtensions}

compile(vs) ==
    /\ pc = "done"
    /\ pc' = "running"
    /\ versions' = vs
    /\ UNCHANGED <<emit, currentFeature, isSurfaceExtension,
                   surfaceExtensionVersionIndent, sections, opaqueStruct,
                   functionTypeName, functionVars, instanceLevelFuncNames,
                   instanceLevelFunctions, deviceLevelFuncNames,
                   deviceLevelFunctions, typesFile, funcsFile, visited, begun,
                   ptr, ran, failed, lastCall, arg, res>>

\* one call of an entry point: the assert, then the resolution statements
Call(name, guardOk, names, via) ==
    /\ ~failed
    /\ lastCall' = name
    /\ IF guardOk
       THEN /\ ptr' = [n \in AllNames |-> IF n \in names THEN via ELSE ptr[n]]
            /\ ran' = ran \cup {name}
            /\ UNCHANGED failed
       ELSE /\ failed' = TRUE
            /\ UNCHANGED <<ptr, ran>>
    /\ UNCHANGED <<genVars, versions, arg, res>>

loadGlobalLevelFunctions ==
    /\ pc = "running"
    /\ ~failed
    /\ lastCall' = "loadGlobalLevelFunctions"
    /\ ptr' = [n \in AllNames |->
                 IF n = "vkGetInstanceProcAddr" THEN "getProcAddr"
                 ELSE IF n \in gloablLevelFuncNames THEN "vkGetInstanceProcAddr"
                 ELSE ptr[n]]
    /\ ran' = ran \cup {"loadGlobalLevelFunctions"}
    /\ UNCHANGED <<genVars, versions, failed, arg, res>>

loadInstanceLevelFunctions ==
    /\ pc = "running"
    /\ Call("loadInstanceLevelFunctions",
            ptr["vkGetInstanceProcAddr"] # "null",
            ActiveNames(instanceLevelFunctions, "stmt", versions, TRUE),
            "vkGetInstanceProcAddr")

loadDeviceLevelFunctions_VkInstance ==
    /\ pc = "running"
    /\ Call("loadDeviceLevelFunctions(VkInstance)",
            ptr["vkGetInstanceProcAddr"] # "null",
            ActiveNames(deviceLevelFunctions, "stmt", versions, TRUE),
            "vkGetInstanceProcAddr")

loadDeviceLevelFunctions_VkDevice ==
    /\ pc = "running"
    /\ Call("loadDeviceLevelFunctions(VkDevice)",
            ptr["vkGetDeviceProcAddr"] # "null",
            ActiveNames(deviceLevelFunctions, "stmt", versions, TRUE),
            "vkGetDeviceProcAddr")

\* ------------------------------------------------------ the specifications
Init == GenInit /\ LoaderInit /\ arg = <<>> /\ res = <<>>

\* the generator over the whole registry
Next ==
    \/ beginFile
    \/ \E name \in FeatureNames, emitFlag \in BOOLEAN :
          beginFeature(name, emitFlag)
    \/ \E cmd \in Commands : genCmd(cmd)
    \/ \E typeinfo \in Types : genType(typeinfo)
    \/ \E groupinfo \in Groups : genGroup(groupinfo)
    \/ \E enuminfo \in Enums : genEnum(enuminfo)
    \/ endFeature
    \/ endFile

Spec == Init /\ [][Next]_vars

\* the generator over the commands of the registry, then the generated loader
NextLoader ==
    \/ beginFile
    \/ \E name \in FeatureNames, emitFlag \in BOOLEAN :
          beginFeature(name, emitFlag)
    \/ \E cmd \in Commands : genCmd(cmd)
    \/ endFeature
    \/ endFile
    \/ \E vs \in SUBSET ModelMacros : compile(vs)
    \/ loadGlobalLevelFunctions
    \/ loadInstanceLevelFunctions
    \/ loadDeviceLevelFunctions_VkInstance
    \/ loadDeviceLevelFunctions_VkDevice

SpecLoader == Init /\ [][NextLoader]_vars


\* genGroup on its own, over every short member list and every filter
MemberNames == <<"VK_A", "VK_B", "VK_C", "VK_D", "VK_E">>
MemberValues == {-2, 0, 3}
MemberAttrs ==
    [value : MemberValues, extends : BOOLEAN, extname : {NoName} \cup ExtensionNames]
MemberLists ==
    UNION {{[i \in 1..n |->
               EnumElem(MemberNames[i], a[i].value, a[i].extends, a[i].extname,
                        IF a[i].extname = NoName THEN NoName ELSE "vulkan")] :
              a \in [1..n -> MemberAttrs]} : n \in 0..MaxMembers}
GroupShapes ==
    {[name |-> "VkResult", words |-> <<"Vk", "Result">>, type |-> "enum"],
     [name |-> "VkPresentModeKHR", words |-> <<"Vk", "Present", "Mode", "KHR">>,
      type |-> "enum"],
     [name |-> "VkCullModeFlagBits",
      words |-> <<"Vk", "Cull", "Mode", "Flag", "Bits">>, type |-> "bitmask"]}
FilterOptions ==
    {[addExtensions |-> a, defaultExtensions |-> d, namePrefix |-> "DVulkan",
      genFuncPointers |-> TRUE] :
        a \in SUBSET ExtensionNames, d \in {NoName, "vulkan"}}

InitGroup ==
    /\ GenInit /\ LoaderInit
    /\ arg \in {[groupinfo |-> GroupInfo(g.name, g.words, g.type, m), opts |-> o] :
                  g \in GroupShapes, m \in MemberLists, o \in FilterOptions}
    /\ res = <<>>

applyGenGroup ==
    /\ res = <<>>
    /\ res' = <<genGroupResult(arg.groupinfo, arg.opts)>>
    /\ UNCHANGED <<genVars, loaderVars, arg>>

SpecGroup == InitGroup /\ [][applyGenGroup]_vars

\* convertTypeConst on its own, applied to a type string and then to its result
Alphabet == {"const", " ", "*", "a", "("}
TypeStrings == UNION {[1..n -> Alphabet] : n \in 0..MaxTypeLen}

InitConvert ==
    /\ GenInit /\ LoaderInit
    /\ arg \in TypeStrings
    /\ res = <<>>

applyConvertTypeConst ==
    /\ Len(res) < 2
    /\ res' = Append(res, convertTypeConst(IF res = <<>> THEN arg ELSE res[1]))
    /\ UNCHANGED <<genVars, loaderVars, arg>>

SpecConvert == InitConvert /\ [][applyConvertTypeConst]_vars

\* getFullType over <param>/<member> elements: the text before <type>, the
\* type name spelled letter by letter, and the tail after it
NameLetters == {"s", "t", "w", "_"}
TypeNames == UNION {[1..n -> NameLetters] : n \in 1..MaxNameLen}
ElemTexts == {<<>>, <<"const", " ">>, <<"struct", " ">>}
ElemTails == {<<" ">>, <<"*", " ">>, <<"*", "*", " ">>}
Elems ==
    {Elem(text, type, tail, <<"p">>) :
        text \in ElemTexts, type \in TypeNames, tail \in ElemTails}

InitFullType ==
    /\ GenInit /\ LoaderInit
    /\ arg \in Elems
    /\ res = <<>>

applyGetFullType ==
    /\ res = <<>>
    /\ arg \in Elems
    /\ res' = [typstr |-> getFullType(arg), opaqueStruct |-> getFullTypeOpaque(arg)]
    /\ UNCHANGED <<genVars, loaderVars, arg>>

SpecFullType == InitFullType /\ [][applyGetFullType]_vars

\* ------------------------------------------------------------- the claims
VisitedCommands == {i \in 1..Len(visited) : visited[i].kind = "command"}

\* a block is closed once endFeature has run for it
Closed(b) == b < Len(begun) \/ pc \in {"closed", "done", "running"}

\* the C type of a parameter as the registry writes it
UntranslatedType(elem) == Strip(elem.text \o elem.type \o elem.tail)

\* C1: every command name passed to genCmd, a command with an empty
\* parameter list included, is in exactly one of instanceLevelFuncNames and
\* deviceLevelFuncNames
C1_ExactlyOneSet ==
    \A i \in VisitedCommands :
        (visited[i].name \in instanceLevelFuncNames)
            # (visited[i].name \in deviceLevelFuncNames)

\* C2: a command is in deviceLevelFuncNames exactly when the untranslated
\* type of its first parameter is VkDevice, VkQueue or VkCommandBuffer and it
\* is not vkGetDeviceProcAddr; every other command is in
\* instanceLevelFuncNames
DeviceAdjacent(v) ==
    /\ v.params # <<>>
    /\ UntranslatedType(v.params[1]) \in DeviceTypes
    /\ v.name # "vkGetDeviceProcAddr"
C2_DeviceIffFirstParam ==
    \A i \in VisitedCommands :
        /\ visited[i].name \in deviceLevelFuncNames <=> DeviceAdjacent(visited[i])
        /\ ~DeviceAdjacent(visited[i]) => visited[i].name \in instanceLevelFuncNames


\* C3: an entry point of the loader called before its predecessor has run
\* fails its assert and resolves nothing: loadInstanceLevelFunctions needs
\* loadGlobalLevelFunctions, both loadDeviceLevelFunctions overloads need
\* loadInstanceLevelFunctions
Predecessor(call) ==
    IF call = "loadInstanceLevelFunctions" THEN "loadGlobalLevelFunctions"
    ELSE "loadInstanceLevelFunctions"
C3_FailFast ==
    [][(/\ pc = "running"
        /\ lastCall' # "loadGlobalLevelFunctions"
        /\ Predecessor(lastCall') \notin ran)
       => (failed' /\ ptr' = ptr)]_vars

\* the commands of the __gshared table of the compiled program
TableNames == ActiveNames(functionVars, "var", versions, TRUE)
DeviceEntryPoints ==
    {"loadDeviceLevelFunctions(VkInstance)", "loadDeviceLevelFunctions(VkDevice)"}

\* C4 as stated: after the call of loadInstanceLevelFunctions that follows
\* the bootstrap, every command pointer of the table has been assigned
C4_AllAssigned ==
    ran = {"loadGlobalLevelFunctions", "loadInstanceLevelFunctions"}
        => \A n \in TableNames : ptr[n] # "null"

\* C4 as amended: after loadInstanceLevelFunctions has returned, every
\* instance-level command of the table is assigned (through
\* vkGetInstanceProcAddr, the getter itself from the caller's pointer), and a
\* device-level pointer is assigned only by a loadDeviceLevelFunctions
C4_InstanceLevelAssigned ==
    /\ "loadInstanceLevelFunctions" \in ran =>
          \A n \in TableNames \cap instanceLevelFuncNames :
              ptr[n] = IF n = "vkGetInstanceProcAddr" THEN "getProcAddr"
                       ELSE "vkGetInstanceProcAddr"
    /\ \A n \in deviceLevelFuncNames :
          ptr[n] # "null" => ran \cap DeviceEntryPoints # {}
C4_Witness ==
    /\ ran = {"loadGlobalLevelFunctions", "loadInstanceLevelFunctions"}
    /\ \E n \in (TableNames \cap instanceLevelFuncNames) \ gloablLevelFuncNames :
          ptr[n] = "vkGetInstanceProcAddr"
    /\ \E n \in TableNames \cap deviceLevelFuncNames : ptr[n] = "null"

StmtNames(stream) ==
    {stream[i].name : i \in {j \in 1..Len(stream) : stream[j].k = "stmt"}}
EmittedCommands ==
    {visited[i].name :
       i \in {j \in VisitedCommands :
                Closed(visited[j].block) /\ begun[visited[j].block].emit}}

\* C5: no bootstrap command has a resolution statement in the instance or the
\* device stream, loadGlobalLevelFunctions assigns all four, and every other
\* instance-level command of an emitted block has a statement in the
\* instance stream
C5_Bootstrap ==
    /\ StmtNames(instanceLevelFunctions) \cap gloablLevelFuncNames = {}
    /\ StmtNames(deviceLevelFunctions) \cap gloablLevelFuncNames = {}
    /\ "loadGlobalLevelFunctions" \in ran =>
          \A n \in gloablLevelFuncNames : ptr[n] # "null"
    /\ (EmittedCommands \cap instanceLevelFuncNames) \ gloablLevelFuncNames
          \subseteq StmtNames(instanceLevelFunctions)
C5_Witness ==
    /\ "loadGlobalLevelFunctions" \in ran
    /\ EmittedCommands \cap gloablLevelFuncNames # {}
    /\ (EmittedCommands \cap instanceLevelFuncNames) \ gloablLevelFuncNames # {}

Count(stream, kind, name) ==
    Cardinality({i \in 1..Len(stream) :
                   stream[i].k = kind /\ stream[i].name = name})
BlockCommands ==
    {visited[i].name : i \in {j \in VisitedCommands : visited[j].block = Len(begun)}}

\* C6: the close of an emitted block with commands appends one table
\* declaration per command, gives an instance-level command its statement in
\* the instance stream only and a device-level command exactly one statement,
\* in the device stream only; the close of a block without commands leaves the
\* three streams as they were
C6_StreamsPerCommand ==
    [][(pc = "open" /\ pc' = "closed") =>
         IF emit /\ BlockCommands # {}
         THEN \A n \in BlockCommands :
                /\ Count(functionVars', "var", n) = 1
                /\ Count(functionVars, "var", n) = 0
                /\ n \in instanceLevelFuncNames =>
                      /\ Count(deviceLevelFunctions', "stmt", n) = 0
                      /\ Count(instanceLevelFunctions', "stmt", n)
                           = IF n \in gloablLevelFuncNames THEN 0 ELSE 1
                /\ n \in deviceLevelFuncNames =>
                      /\ Count(deviceLevelFunctions', "stmt", n) = 1
                      /\ Count(instanceLevelFunctions', "stmt", n) = 0
         ELSE BlockCommands = {} =>
                UNCHANGED <<functionVars, instanceLevelFunctions,
                            deviceLevelFunctions>>]_vars
C6_Witness ==
    /\ pc = "closed" /\ emit
    /\ BlockCommands \cap instanceLevelFuncNames # {}
    /\ BlockCommands \cap deviceLevelFuncNames # {}
    /\ \A n \in BlockCommands : Count(functionVars, "var", n) = 1

\* the precedence of the sections
Rank ==
    [s \in {"include", "define", "basetype", "handle", "enum", "group",
            "bitmask", "funcpointer", "struct", "commandPointer", "command"} |->
        CASE s = "include" -> 1 [] s = "define" -> 2 [] s = "basetype" -> 3
          [] s = "handle" -> 4 [] s = "enum" -> 5 [] s = "group" -> 6
          [] s = "bitmask" -> 7 [] s = "funcpointer" -> 8 [] s = "struct" -> 9
          [] s = "commandPointer" -> 10 [] s = "command" -> 11]
VisitIdx(name) == CHOOSE i \in 1..Len(visited) : visited[i].name = name
BlockIdx(f) == CHOOSE b \in 1..Len(begun) : begun[b].name = f[Len(f)]
InBlock(line) == line.f # <<>>
IsContent(line) == line.k = "content"
Ordered(file) ==
    LET blockLines == SelectSeq(file, InBlock)
        content == SelectSeq(file, IsContent)
    IN  /\ \A i \in 1..(Len(blockLines) - 1) :
              BlockIdx(blockLines[i].f) <= BlockIdx(blockLines[i + 1].f)
        /\ \A i \in 1..(Len(content) - 1) :
              content[i].f = content[i + 1].f =>
                /\ Rank[content[i].sec] <= Rank[content[i + 1].sec]
                /\ content[i].sec = content[i + 1].sec =>
                      VisitIdx(content[i].text.name)
                          <= VisitIdx(content[i + 1].text.name)

\* C7: in each output the blocks come in the order they were closed, within a
\* block the sections in the precedence include, define, basetype, handle,
\* enum, group, bitmask, funcpointer, struct (types.d) and commandPointer,
\* command (functions.d), within a section the entries in the order appended
C7_OutputOrder ==
    /\ Ordered(typesFile)
    /\ Ordered(funcsFile)
    /\ \A i \in 1..Len(typesFile) :
          typesFile[i].k = "content" => Rank[typesFile[i].sec] <= 9
    /\ \A i \in 1..Len(funcsFile) :
          funcsFile[i].k = "content" => Rank[funcsFile[i].sec] >= 10
C7_Witness ==
    \E i, j, k \in 1..Len(typesFile) :
        /\ i < j /\ j < k
        /\ typesFile[i].k = "content" /\ typesFile[j].k = "content"
        /\ typesFile[i].f = typesFile[j].f
        /\ typesFile[i].sec # typesFile[j].sec
        /\ typesFile[k].f # typesFile[j].f

\* C8: the close of an emitted block whose opaque-struct set is not empty
\* writes exactly one forward declaration per name of the set to types.d,
\* before every struct body of the block, with or without a struct entry in
\* the block
C8_ForwardDeclarations ==
    (pc = "closed" /\ emit /\ opaqueStruct # {}) =>
        \A n \in opaqueStruct :
            LET mine(i) == typesFile[i].f # <<>>
                           /\ BlockIdx(typesFile[i].f) = Len(begun)
                decls == {i \in 1..Len(typesFile) :
                            /\ mine(i) /\ typesFile[i].k = "opaque"
                            /\ typesFile[i].text.toks = n}
                bodies == {i \in 1..Len(typesFile) :
                             /\ mine(i) /\ typesFile[i].k = "content"
                             /\ typesFile[i].sec = "struct"}
            IN  /\ Cardinality(decls) = 1
                /\ \A i \in decls, j \in bodies : i < j

\* C9: for a group written as a plain enumeration, minName names a member of
\* least value and maxName a member of greatest value among the members
\* without 'extends', and the RANGE_SIZE sentinel is (max - min + 1) over them
CoreMembers == {e \in Range(arg.groupinfo.enums) : ~e.extends}
ValueOfName(n) == (CHOOSE e \in Range(arg.groupinfo.enums) : e.name = n).value
RangeSizeOperands(toks) ==
    LET i == CHOOSE i \in 1..Len(toks) : toks[i] = " = ("
    IN  <<toks[i + 1], toks[i + 3]>>
C9_MinMax ==
    (res # <<>> /\ res[1].isEnum /\ ~res[1].raised) =>
        /\ \E e \in CoreMembers :
              e.name = res[1].minName /\ \A d \in CoreMembers : e.value <= d.value
        /\ \E e \in CoreMembers :
              e.name = res[1].maxName /\ \A d \in CoreMembers : e.value >= d.value
        /\ LET ops == RangeSizeOperands(res[1].text.toks)
           IN  \A lo, hi \in CoreMembers :
                 ((\A d \in CoreMembers : lo.value <= d.value /\ d.value <= hi.value)
                  => ValueOfName(ops[1]) - ValueOfName(ops[2]) + 1
                       = hi.value - lo.value + 1)
C9_Witness ==
    /\ res # <<>> /\ res[1].isEnum /\ ~res[1].raised
    /\ Len(arg.groupinfo.enums) >= 3
    /\ ~arg.groupinfo.enums[1].extends
    /\ arg.groupinfo.enums[1].name \notin {res[1].minName, res[1].maxName}
    /\ ValueOfName(res[1].minName) < 0
    /\ ValueOfName(res[1].maxName) > 0

\* C10: on a type string that matches the double-const-pointer or the
\* single-const-pointer pattern, convertTypeConst of the result is the result,
\* and a string that matches both is translated by the double-const rule
C10_Idempotent ==
    (Len(res) = 2
     /\ (MatchDoubleConst(arg) # <<>> \/ MatchSingleConst(arg) # <<>>)) =>
        /\ res[2] = res[1]
        /\ (MatchDoubleConst(arg) # <<>> /\ MatchSingleConst(arg) # <<>>) =>
              res[1] = <<"const", "(">> \o MatchDoubleConst(arg) \o <<"*", ")", "*">>
C10_Witness ==
    /\ Len(res) = 2
    /\ MatchDoubleConst(arg) # <<>>
    /\ MatchSingleConst(arg) # <<>>
    /\ res[1] # arg

\* the struct name as the element writes it after the keyword, pointer
\* markers removed
WrittenName(elem) == RStripChars(Strip(elem.type) \o RStrip(elem.tail), {"*"})
BeginsWithStruct(elem) == StartsWith(LStrip(elem.text), "struct")

\* C11: for a type string that begins with the struct keyword getFullType
\* registers exactly the struct's name as written after the keyword, without
\* its trailing pointer markers, whatever the first letters of the name; for
\* any other type string it registers nothing
C11_RegistersWrittenName ==
    (res # <<>> /\ arg \in Elems) =>
        res.opaqueStruct =
            IF BeginsWithStruct(arg) THEN {WrittenName(arg)} ELSE {}

\* the block in which an entry was visited, and the struct names the entries
\* of a block register
WasVisited(name) == \E i \in 1..Len(visited) : visited[i].name = name
EntryBlock(name) == visited[VisitIdx(name)].block
TypeByName(name) == CHOOSE t \in Types : t.name = name
EntryOpaque(v) ==
    IF v.kind = "command"
    THEN UNION {getFullTypeOpaque(v.params[i]) : i \in 1..Len(v.params)}
    ELSE IF /\ v.kind = "type"
            /\ ~IsSkipped(TypeByName(v.name))
            /\ TypeByName(v.name).category \in {"struct", "union"}
    THEN StructOpaque(TypeByName(v.name))
    ELSE {}
RegisteredIn(b) ==
    UNION {EntryOpaque(visited[i]) :
             i \in {j \in 1..Len(visited) : visited[j].block = b}}
FromOwnBlock(file) ==
    \A i \in 1..Len(file) :
        /\ file[i].k = "content" =>
              /\ WasVisited(file[i].text.name)
              /\ EntryBlock(file[i].text.name) = BlockIdx(file[i].f)
        /\ file[i].k = "opaque" =>
              file[i].text.toks \in RegisteredIn(BlockIdx(file[i].f))
WrittenTo(file, section, text) ==
    \E i \in 1..Len(file) :
        /\ file[i].k = "content" /\ file[i].sec = section
        /\ file[i].text = text
        /\ BlockIdx(file[i].f) = Len(begun)

C13_SentinelsWritten ==
    (res # <<>> /\ res[1].isEnum) =>
        /\ ~res[1].raised
        /\ res[1].minName \in Range(res[1].written)
        /\ res[1].maxName \in Range(res[1].written)

====
